---------------------------- MODULE Spec2Model ----------------------------
(***************************************************************************)
(* Model of gigamon_parser.py (parse_gigamon_diag): the alias scan, the    *)
(* port parameter scan, the port statistics scan and the report renderer.  *)
(*                                                                         *)
(* A Python str is a sequence of one-character strings, so that the        *)
(* substring tests, regular expressions, splits and case conversions of    *)
(* the source are computed rather than assumed.  The one-character string  *)
(* "SUP2" stands for the single character U+00B2 (superscript two), a      *)
(* character for which str.isdigit() is true and that \d does not match.   *)
(* A document line is the line's text without its trailing newline (the    *)
(* alias pattern's '.' does not match it and the other scans strip it).    *)
(***************************************************************************)
EXTENDS Integers, Sequences, FiniteSets

VARIABLES
    lines,               \* the document: f.readlines()
    output_format,       \* parameter output_format
    show_summary,        \* parameter show_summary
    pc,                  \* position in parse_gigamon_diag
    idx,                 \* index of the next line of the running for loop
    in_running_config,   \* STEP 1 flag
    port_aliases,        \* dict port -> alias
    current_ports,       \* STEP 2 column list
    port_data,           \* dict port -> record
    port_order,          \* insertion order of the keys of port_data
    current_stats_ports, \* STEP 2.5 column list
    err,                 \* exception that left the function, or "none"
    out                  \* what was printed to standard output

vars == <<lines, output_format, show_summary, pc, idx, in_running_config,
          port_aliases, current_ports, port_data, port_order,
          current_stats_ports, err, out>>

-----------------------------------------------------------------------------
(* Characters and str methods *)

\* The printable ASCII characters in code point order, 32 .. 126 ("GRAVE" is
\* the one character U+0060).
Ascii == <<" ", "!", "\"", "#", "$", "%", "&", "'", "(", ")", "*", "+", ",", "-", ".", "/", "0", "1", "2", "3", "4", "5", "6", "7", "8", "9", ":", ";", "<", "=", ">", "?", "@", "A", "B", "C", "D", "E", "F", "G", "H", "I", "J", "K", "L", "M", "N", "O", "P", "Q", "R", "S", "T", "U", "V", "W", "X", "Y", "Z", "[", "\\", "]", "^", "_", "GRAVE", "a", "b", "c", "d", "e", "f", "g", "h", "i", "j", "k", "l", "m", "n", "o", "p", "q", "r", "s", "t", "u", "v", "w", "x", "y", "z", "{", "|", "}", "~">>

\* ord(c)
Ord(c) ==
    IF c = "\t" THEN 9
    ELSE IF c = "SUP2" THEN 178
    ELSE 31 + (CHOOSE i \in 1..Len(Ascii) : Ascii[i] = c)

\* chr(n) for a printable ASCII code point
Chr(n) == Ascii[n - 31]

\* what \s matches and str.strip() removes
IsSpace(c) == c \in {" ", "\t"}

\* what \d and [0-9] match
IsDecimal(c) == c \in {"0", "1", "2", "3", "4", "5", "6", "7", "8", "9"}

\* what [a-z] matches
IsLower(c) ==
    c \in {"a", "b", "c", "d", "e", "f", "g", "h", "i", "j", "k", "l", "m",
           "n", "o", "p", "q", "r", "s", "t", "u", "v", "w", "x", "y", "z"}

IsUpper(c) ==
    c \in {"A", "B", "C", "D", "E", "F", "G", "H", "I", "J", "K", "L", "M",
           "N", "O", "P", "Q", "R", "S", "T", "U", "V", "W", "X", "Y", "Z"}

\* what [a-z0-9] matches
IsLowerAlnum(c) == IsDecimal(c) \/ IsLower(c)

\* str.isdigit() of one character: the decimal digits and the superscript digits
IsDigitChar(c) == IsDecimal(c) \/ c = "SUP2"

LowerChar(c) == IF IsUpper(c) THEN Chr(Ord(c) + 32) ELSE c

UpperChar(c) == IF IsLower(c) THEN Chr(Ord(c) - 32) ELSE c

\* str.lower()
Lower(s) == [i \in 1..Len(s) |-> LowerChar(s[i])]

\* str.capitalize(): first character upper-cased, the rest lower-cased
Capitalize(s) ==
    [i \in 1..Len(s) |-> IF i = 1 THEN UpperChar(s[i]) ELSE LowerChar(s[i])]

\* the elements of a list
Range(seq) == {seq[i] : i \in 1..Len(seq)}

\* s[n:]
Drop(s, n) == SubSeq(s, n + 1, Len(s))

\* whether p occurs in s at offset n
OccursAt(s, p, n) == Len(s) >= n + Len(p) /\ \A i \in 1..Len(p) : s[n + i] = p[i]

\* str.startswith(p)
StartsWith(s, p) == OccursAt(s, p, 0)

\* sub in s
Contains(s, sub) == \E n \in 0..(Len(s) - Len(sub)) : OccursAt(s, sub, n)

RECURSIVE LStrip(_)
LStrip(s) == IF s # <<>> /\ IsSpace(Head(s)) THEN LStrip(Tail(s)) ELSE s

RECURSIVE RStrip(_)
RStrip(s) ==
    IF s # <<>> /\ IsSpace(s[Len(s)]) THEN RStrip(SubSeq(s, 1, Len(s) - 1)) ELSE s

\* str.strip()
Strip(s) == RStrip(LStrip(s))

\* str.replace(old, new), old not empty: leftmost occurrences, not overlapping
RECURSIVE Replace(_, _, _)
Replace(s, old, new) ==
    IF s = <<>> THEN <<>>
    ELSE IF StartsWith(s, old) THEN new \o Replace(Drop(s, Len(old)), old, new)
    ELSE <<Head(s)>> \o Replace(Tail(s), old, new)

\* length of the longest prefix of s whose characters all satisfy the class
RECURSIVE SpaceRun(_)
SpaceRun(s) == IF s # <<>> /\ IsSpace(Head(s)) THEN 1 + SpaceRun(Tail(s)) ELSE 0

RECURSIVE DecimalRun(_)
DecimalRun(s) == IF s # <<>> /\ IsDecimal(Head(s)) THEN 1 + DecimalRun(Tail(s)) ELSE 0

RECURSIVE NonDecimalRun(_)
NonDecimalRun(s) ==
    IF s # <<>> /\ ~IsDecimal(Head(s)) THEN 1 + NonDecimalRun(Tail(s)) ELSE 0

RECURSIVE LowerAlnumRun(_)
LowerAlnumRun(s) ==
    IF s # <<>> /\ IsLowerAlnum(Head(s)) THEN 1 + LowerAlnumRun(Tail(s)) ELSE 0

\* re.split(r'\s{2,}', s): the pieces between the leftmost, longest runs of two
\* or more whitespace characters
RECURSIVE SplitColumns(_, _)
SplitColumns(s, piece) ==
    IF s = <<>> THEN <<piece>>
    ELSE IF SpaceRun(s) >= 2 THEN <<piece>> \o SplitColumns(Drop(s, SpaceRun(s)), <<>>)
    ELSE SplitColumns(Tail(s), Append(piece, Head(s)))

-----------------------------------------------------------------------------
(* The three compiled patterns and the row split *)

\* alias_pattern.match(line):
\*   ^\s*port\s+([0-9]+/[0-9]+/[a-z0-9]+)\s+alias\s+(.+)
\* Every repetition is followed by a character it cannot match, so the greedy
\* match is the only one, except the final \s+(.+): when only whitespace
\* follows "alias", \s+ gives its last character back to (.+).
AliasMatch(line) ==
    LET a  == LStrip(line)
        b  == Drop(a, 4)
        c  == Drop(b, SpaceRun(b))
        d1 == DecimalRun(c)
        c2 == Drop(c, d1)
        d2 == DecimalRun(Drop(c2, 1))
        c3 == Drop(c2, 1 + d2)
        n3 == LowerAlnumRun(Drop(c3, 1))
        e  == Drop(c3, 1 + n3)
        f  == Drop(e, SpaceRun(e))
        g  == Drop(f, 5)
        w  == SpaceRun(g)
        ok == /\ StartsWith(a, <<"p", "o", "r", "t">>)
              /\ SpaceRun(b) >= 1
              /\ d1 >= 1 /\ StartsWith(c2, <<"/">>)
              /\ d2 >= 1 /\ StartsWith(c3, <<"/">>)
              /\ n3 >= 1
              /\ SpaceRun(e) >= 1
              /\ StartsWith(f, <<"a", "l", "i", "a", "s">>)
              /\ w >= 1 /\ Len(g) >= 2
    IN  IF ok
        THEN [matched |-> TRUE,
              port    |-> SubSeq(c, 1, d1 + 1 + d2 + 1 + n3),
              rest    |-> IF Len(g) > w THEN Drop(g, w) ELSE Drop(g, w - 1)]
        ELSE [matched |-> FALSE, port |-> <<>>, rest |-> <<>>]

\* header_pattern.match(line):  ^\s*Parameter\s+(1/\d+/\S+.*)
HeaderMatch(line) ==
    LET a  == LStrip(line)
        b  == Drop(a, 9)
        g  == Drop(b, SpaceRun(b))
        d  == DecimalRun(Drop(g, 2))
        h  == Drop(g, 2 + d)
        ok == /\ StartsWith(a, <<"P", "a", "r", "a", "m", "e", "t", "e", "r">>)
              /\ SpaceRun(b) >= 1
              /\ StartsWith(g, <<"1", "/">>)
              /\ d >= 1
              /\ Len(h) >= 2 /\ h[1] = "/" /\ ~IsSpace(h[2])
    IN  IF ok THEN [matched |-> TRUE, group |-> g]
        ELSE [matched |-> FALSE, group |-> <<>>]

\* stats_header_pattern.match(line):  ^\s*Counter Name\s+(.*)
StatsHeaderMatch(line) ==
    LET a  == LStrip(line)
        b  == Drop(a, 12)
        ok == StartsWith(a, <<"C", "o", "u", "n", "t", "e", "r", " ", "N", "a", "m", "e">>) /\ SpaceRun(b) >= 1
    IN  IF ok THEN [matched |-> TRUE, group |-> Drop(b, SpaceRun(b))]
        ELSE [matched |-> FALSE, group |-> <<>>]

\* p_str.replace("Port:", "").strip() for each of raw_ports
StatsPorts(raw_ports) ==
    [i \in 1..Len(raw_ports) |-> Strip(Replace(raw_ports[i], <<"P", "o", "r", "t", ":">>, <<>>))]

\* label = parts[0].replace(":", "").strip()
RowLabel(parts) == Strip(Replace(parts[1], <<":">>, <<>>))

\* values = parts[1:]
RowValues(parts) == Tail(parts)

-----------------------------------------------------------------------------
(* Port records *)

\* the record a port gets the first time a header names it
DefaultRecord ==
    [Type   |-> <<"N", "/", "A">>,
     Admin  |-> <<"N", "/", "A">>,
     Speed  |-> <<"N", "/", "A">>,
     SFP    |-> <<"N", "/", "A">>,
     Media  |-> <<"N", "/", "A">>,
     RxRate |-> <<"0">>,
     TxRate |-> <<"0">>]

\* faulty variant of IsNewPort: every header resets the records of the ports it names
EveryPortNew(p, pd) == TRUE

\* if p not in port_data
IsNewPort(p, pd) == p \notin DOMAIN pd

\* for p in current_ports: if p not in port_data: port_data[p] = {...}
RECURSIVE AddPorts(_, _)
AddPorts(d, ports) ==
    IF ports = <<>> THEN d
    ELSE LET p == Head(ports) IN
         IF IsNewPort(p, d.data)
         THEN AddPorts([data  |-> [q \in DOMAIN d.data \cup {p} |->
                                     IF q = p THEN DefaultRecord ELSE d.data[q]],
                        order |-> Append(d.order, p)],
                       Tail(ports))
         ELSE AddPorts(d, Tail(ports))

\* the "Speed (Mbps)" normalisation
SpeedLabel(val) ==
    IF val = <<"1", "0", "0", "0">> THEN <<"1", "G", "b">>
    ELSE IF val = <<"1", "0", "0", "0", "0">> THEN <<"1", "0", "G", "b">>
    ELSE IF val = <<"4", "0", "0", "0", "0">> THEN <<"4", "0", "G", "b">>
    ELSE IF val = <<"1", "0", "0", "0", "0", "0">> THEN <<"1", "0", "0", "G", "b">>
    ELSE val

\* any(x in val_lower for x in ['sx', 'lx', 'sr', 'lr', 'er', 'zr'])
HasFiberCode(val_lower) ==
    \E x \in {<<"s", "x">>, <<"l", "x">>, <<"s", "r">>, <<"l", "r">>, <<"e", "r">>, <<"z", "r">>} : Contains(val_lower, x)

\* faulty variant of MediaOf: the fiber test comes before the copper test
MediaFiberFirst(val) ==
    LET val_lower == Lower(val) IN
    IF HasFiberCode(val_lower) THEN <<"F", "i", "b", "e", "r">>
    ELSE IF Contains(val_lower, <<"c", "u">>) \/ Contains(val_lower, <<"c", "o", "p", "p", "e", "r">>) THEN <<"C", "o", "p", "p", "e", "r">>
    ELSE IF Contains(val_lower, <<"q", "s", "f", "p">>) THEN <<"F", "i", "b", "e", "r", " ", "(", "Q", "S", "F", "P", ")">>
    ELSE IF val_lower \in {<<"n", "o", "n", "e">>, <<"n", "/", "a">>, <<"(", "u", "n", "s", "u", "p", "p", "o", "r", "t", "e", "d", ")">>} THEN <<"N", "o", " ", "M", "o", "d", "u", "l", "e">>
    ELSE val

\* the media string of an "SFP type" value
MediaOf(val) ==
    LET val_lower == Lower(val) IN
    IF Contains(val_lower, <<"c", "u">>) \/ Contains(val_lower, <<"c", "o", "p", "p", "e", "r">>) THEN <<"C", "o", "p", "p", "e", "r">>
    ELSE IF HasFiberCode(val_lower) THEN <<"F", "i", "b", "e", "r">>
    ELSE IF Contains(val_lower, <<"q", "s", "f", "p">>) THEN <<"F", "i", "b", "e", "r", " ", "(", "Q", "S", "F", "P", ")">>
    ELSE IF val_lower \in {<<"n", "o", "n", "e">>, <<"n", "/", "a">>, <<"(", "u", "n", "s", "u", "p", "p", "o", "r", "t", "e", "d", ")">>} THEN <<"N", "o", " ", "M", "o", "d", "u", "l", "e">>
    ELSE val

\* the fields one value of a recognized row assigns; no field for another label
RowUpdate(label, val) ==
    IF label = <<"T", "y", "p", "e">> THEN [Type |-> val]
    ELSE IF label = <<"A", "d", "m", "i", "n">> THEN [Admin |-> val]
    ELSE IF label = <<"S", "p", "e", "e", "d", " ", "(", "M", "b", "p", "s", ")">> THEN [Speed |-> SpeedLabel(val)]
    ELSE IF label = <<"S", "F", "P", " ", "t", "y", "p", "e">> THEN [SFP |-> val, Media |-> MediaOf(val)]
    ELSE [f \in {} |-> val]

\* the fields one value of a recognized counter row assigns
StatsUpdate(label, val) ==
    IF label = <<"I", "f", "I", "n", "O", "c", "t", "e", "t", "s", "P", "e", "r", "S", "e", "c">> THEN [RxRate |-> val]
    ELSE IF label = <<"I", "f", "O", "u", "t", "O", "c", "t", "e", "t", "s", "P", "e", "r", "S", "e", "c">> THEN [TxRate |-> val]
    ELSE [f \in {} |-> val]

\* faulty variant of Assign: the record is rebuilt from the defaults
AssignOverDefaults(rec, upd) ==
    [f \in DOMAIN rec |-> IF f \in DOMAIN upd THEN upd[f] ELSE DefaultRecord[f]]

\* port_data[p][field] = value, for each field of upd
Assign(rec, upd) == [f \in DOMAIN rec |-> IF f \in DOMAIN upd THEN upd[f] ELSE rec[f]]

\* faulty variant of InPortRange: the guard is missing
NoRangeGuard(i, ports) == TRUE

\* if i < len(current_ports)   (i counted from 1 here)
InPortRange(i, ports) == i <= Len(ports)

\* for i, val in enumerate(values): if i < len(current_ports):
\*     port_data[current_ports[i]][...] = ...
\* current_ports[i] raises IndexError past the list, port_data[...] raises
\* KeyError for a missing key.
RECURSIVE StoreValues(_, _, _, _, _)
StoreValues(pd, ports, values, label, i) ==
    IF i > Len(values) \/ DOMAIN RowUpdate(label, <<>>) = {}
    THEN [err |-> "none", data |-> pd]
    ELSE IF ~InPortRange(i, ports) THEN StoreValues(pd, ports, values, label, i + 1)
    ELSE IF i > Len(ports) THEN [err |-> "IndexError", data |-> pd]
    ELSE IF ports[i] \notin DOMAIN pd THEN [err |-> "KeyError", data |-> pd]
    ELSE StoreValues([pd EXCEPT ![ports[i]] = Assign(@, RowUpdate(label, values[i]))],
                     ports, values, label, i + 1)

\* if p in port_data
IsKnownPort(p, pd) == p \in DOMAIN pd

\* faulty variant of StoreRates: a port without a record gets one (setdefault)
RECURSIVE StoreRatesCreating(_, _, _, _, _)
StoreRatesCreating(pd, ports, values, label, i) ==
    IF i > Len(values) \/ DOMAIN StatsUpdate(label, <<>>) = {}
    THEN [err |-> "none", data |-> pd]
    ELSE IF ~InPortRange(i, ports) THEN StoreRatesCreating(pd, ports, values, label, i + 1)
    ELSE StoreRatesCreating(
             [q \in DOMAIN pd \cup {ports[i]} |->
                 IF q = ports[i]
                 THEN Assign(IF q \in DOMAIN pd THEN pd[q] ELSE DefaultRecord,
                             StatsUpdate(label, values[i]))
                 ELSE pd[q]],
             ports, values, label, i + 1)

\* for i, val in enumerate(values): if i < len(current_stats_ports):
\*     p = current_stats_ports[i]; if p in port_data: port_data[p][...] = val
RECURSIVE StoreRates(_, _, _, _, _)
StoreRates(pd, ports, values, label, i) ==
    IF i > Len(values) \/ DOMAIN StatsUpdate(label, <<>>) = {}
    THEN [err |-> "none", data |-> pd]
    ELSE IF ~InPortRange(i, ports) THEN StoreRates(pd, ports, values, label, i + 1)
    ELSE IF i > Len(ports) THEN [err |-> "IndexError", data |-> pd]
    ELSE IF ~IsKnownPort(ports[i], pd) THEN StoreRates(pd, ports, values, label, i + 1)
    ELSE IF ports[i] \notin DOMAIN pd THEN [err |-> "KeyError", data |-> pd]
    ELSE StoreRates([pd EXCEPT ![ports[i]] = Assign(@, StatsUpdate(label, values[i]))],
                    ports, values, label, i + 1)

-----------------------------------------------------------------------------
(* calc_util *)

RECURSIVE DecimalValue(_)
DecimalValue(digits) ==
    IF digits = <<>> THEN 0
    ELSE 10 * DecimalValue(SubSeq(digits, 1, Len(digits) - 1))
         + (Ord(digits[Len(digits)]) - 48)

\* float(rate_str) for the literals  [+-]?[0-9]+  with surrounding whitespace;
\* for any other string of the input sets float() raises ValueError.
ParseFloat(rate_str) ==
    LET t    == Strip(rate_str)
        sgn  == t # <<>> /\ Head(t) \in {"+", "-"}
        body == IF sgn THEN Tail(t) ELSE t
        ok   == body # <<>> /\ \A i \in 1..Len(body) : IsDecimal(body[i])
    IN  IF ok
        THEN [ok |-> TRUE,
              val |-> IF sgn /\ Head(t) = "-" THEN 0 - DecimalValue(body)
                      ELSE DecimalValue(body)]
        ELSE [ok |-> FALSE, val |-> 0]

\* faulty variant of SpeedBps: the label must be the whole string
SpeedBpsExact(speed_str) ==
    IF speed_str = <<"1", "0", "0", "G", "b">> THEN 100000
    ELSE IF speed_str = <<"4", "0", "G", "b">> THEN 40000
    ELSE IF speed_str = <<"1", "0", "G", "b">> THEN 10000
    ELSE IF speed_str = <<"1", "G", "b">> THEN 1000
    ELSE IF speed_str = <<"1", "0", "0", "M", "b">> THEN 100
    ELSE 0

\* speed_bps of the if/elif chain, in units of 10^6 bit/s (the literals
\* 100_000_000_000 .. 100_000_000 exceed the 32-bit integers of TLC);
\* 0 stands for the else branch.
SpeedBps(speed_str) ==
    IF Contains(speed_str, <<"1", "0", "0", "G", "b">>) THEN 100000
    ELSE IF Contains(speed_str, <<"4", "0", "G", "b">>) THEN 40000
    ELSE IF Contains(speed_str, <<"1", "0", "G", "b">>) THEN 10000
    ELSE IF Contains(speed_str, <<"1", "G", "b">>) THEN 1000
    ELSE IF Contains(speed_str, <<"1", "0", "0", "M", "b">>) THEN 100
    ELSE 0

RECURSIVE GCD(_, _)
GCD(a, b) == IF b = 0 THEN a ELSE GCD(b, a % b)

\* the exact quotient n / d as a fraction in lowest terms
Quotient(n, d) ==
    LET g == GCD(IF n < 0 THEN 0 - n ELSE n, d)
    IN  [num |-> n \div g, den |-> d \div g]

\* 0.0
ZeroUtil == [num |-> 0, den |-> 1]

\* calc_util(rate_str, speed_str); the result is the utilisation in millionths
\* of a percent, because SpeedBps is in units of 10^6 bit/s.
calc_util(rate_str, speed_str) ==
    LET rate == ParseFloat(rate_str) IN
    IF ~rate.ok THEN ZeroUtil
    ELSE IF speed_str \in {<<"N", "/", "A">>, <<"U", "n", "k", "n", "o", "w", "n">>, <<"-">>} THEN ZeroUtil
    ELSE IF SpeedBps(speed_str) = 0 THEN ZeroUtil
    ELSE Quotient(rate.val * 8 * 100, SpeedBps(speed_str))

-----------------------------------------------------------------------------
(* natural_keys and sorted *)

\* re.split(r'(\d+)', text): non-digit run, digit run, non-digit run, ...
RECURSIVE SplitDigitRuns(_)
SplitDigitRuns(text) ==
    LET n    == NonDecimalRun(text)
        rest == Drop(text, n)
        d    == DecimalRun(rest)
    IN  IF rest = <<>> THEN <<SubSeq(text, 1, n)>>
        ELSE <<SubSeq(text, 1, n), SubSeq(rest, 1, d)>> \o SplitDigitRuns(Drop(rest, d))

\* c.isdigit()
IsDigitStr(c) == c # <<>> /\ \A i \in 1..Len(c) : IsDigitChar(c[i])

\* int(c) if c.isdigit() else c ; int() raises ValueError unless every
\* character is a decimal digit
KeyItem(c) ==
    IF IsDigitStr(c)
    THEN IF \A i \in 1..Len(c) : IsDecimal(c[i])
         THEN [kind |-> "int", n |-> DecimalValue(c), s |-> <<>>]
         ELSE [kind |-> "ValueError", n |-> 0, s |-> c]
    ELSE [kind |-> "str", n |-> 0, s |-> c]

natural_keys(text) ==
    LET chunks == SplitDigitRuns(text) IN [i \in 1..Len(chunks) |-> KeyItem(chunks[i])]

\* whether natural_keys(text) raises
KeyRaises(text) ==
    \E i \in 1..Len(natural_keys(text)) : natural_keys(text)[i].kind = "ValueError"

\* str < str: by code point, a proper prefix first
RECURSIVE StrLess(_, _)
StrLess(a, b) ==
    IF b = <<>> THEN FALSE
    ELSE IF a = <<>> THEN TRUE
    ELSE IF Head(a) = Head(b) THEN StrLess(Tail(a), Tail(b))
    ELSE Ord(Head(a)) < Ord(Head(b))

\* list < list of Python: the first index where the items differ decides, an
\* int against a str raises TypeError, and a proper prefix is smaller.
\* "lt": a < b, "ge": not a < b.
RECURSIVE ListLess(_, _)
ListLess(a, b) ==
    IF b = <<>> THEN "ge"
    ELSE IF a = <<>> THEN "lt"
    ELSE IF Head(a) = Head(b) THEN ListLess(Tail(a), Tail(b))
    ELSE IF Head(a).kind # Head(b).kind THEN "TypeError"
    ELSE IF Head(a).kind = "int"
         THEN (IF Head(a).n < Head(b).n THEN "lt" ELSE "ge")
         ELSE (IF StrLess(Head(a).s, Head(b).s) THEN "lt" ELSE "ge")

\* natural_keys(p) < natural_keys(q)
KeyLess(p, q) == ListLess(natural_keys(p), natural_keys(q)) = "lt"

\* a stable sort: p goes after every element it is not smaller than
RECURSIVE InsertPort(_, _)
InsertPort(sorted, p) ==
    IF sorted = <<>> THEN <<p>>
    ELSE IF KeyLess(p, sorted[Len(sorted)])
         THEN Append(InsertPort(SubSeq(sorted, 1, Len(sorted) - 1), p), sorted[Len(sorted)])
         ELSE Append(sorted, p)

RECURSIVE StableSort(_)
StableSort(ports) ==
    IF ports = <<>> THEN <<>>
    ELSE InsertPort(StableSort(SubSeq(ports, 1, Len(ports) - 1)), ports[Len(ports)])

\* the exception of sorted(port_data.keys(), key=natural_keys), or "none": the
\* keys are computed first; TypeError if two keys cannot be compared (whichever
\* pairs the sort compares)
SortError(ports) ==
    IF \E i \in 1..Len(ports) : KeyRaises(ports[i]) THEN "ValueError"
    ELSE IF \E i, j \in 1..Len(ports) :
              ListLess(natural_keys(ports[i]), natural_keys(ports[j])) = "TypeError"
         THEN "TypeError"
    ELSE "none"

\* sorted_ports
SortedPorts(ports) == StableSort(ports)

-----------------------------------------------------------------------------
(* STEP 3: the three renderings.  A printed row is the record of the strings
   put into the row's template; a utilisation is kept with the number of
   decimals it is printed with. *)

\* data["Type"].replace("(T)", "")
DisplayType(data) == Replace(data.Type, <<"(", "T", ")">>, <<>>)

\* data["Admin"].capitalize()
DisplayStatus(data) == Capitalize(data.Admin)

\* port_aliases.get(port, default)
AliasOr(aliases, port, default) ==
    IF port \in DOMAIN aliases THEN aliases[port] ELSE default

\* sum(1 for p in port_data.values() if p["Admin"].lower() == word)
AdminCount(pd, word) == Cardinality({p \in DOMAIN pd : Lower(pd[p].Admin) = word})

JsonRow(port, data, aliases) ==
    [port   |-> port,
     type   |-> DisplayType(data),
     alias  |-> AliasOr(aliases, port, <<>>),
     status |-> DisplayStatus(data),
     speed  |-> data.Speed,
     media  |-> data.Media,
     rx     |-> [util |-> calc_util(data.RxRate, data.Speed), decimals |-> 4],
     tx     |-> [util |-> calc_util(data.TxRate, data.Speed), decimals |-> 4]]

\* faulty variant of CsvRow: the status is printed as stored
CsvRowStoredStatus(port, data, aliases) ==
    [port   |-> port,
     type   |-> DisplayType(data),
     alias  |-> Replace(AliasOr(aliases, port, <<>>), <<",">>, <<";">>),
     status |-> data.Admin,
     speed  |-> data.Speed,
     media  |-> data.Media,
     rx     |-> [util |-> calc_util(data.RxRate, data.Speed), decimals |-> 4],
     tx     |-> [util |-> calc_util(data.TxRate, data.Speed), decimals |-> 4]]

CsvRow(port, data, aliases) ==
    [port   |-> port,
     type   |-> DisplayType(data),
     alias  |-> Replace(AliasOr(aliases, port, <<>>), <<",">>, <<";">>),
     status |-> DisplayStatus(data),
     speed  |-> data.Speed,
     media  |-> data.Media,
     rx     |-> [util |-> calc_util(data.RxRate, data.Speed), decimals |-> 4],
     tx     |-> [util |-> calc_util(data.TxRate, data.Speed), decimals |-> 4]]

\* f"{util:.2f}%" if util > 0 else "0%"
TableUtil(util) ==
    IF util.num > 0 THEN [util |-> util, decimals |-> 2]
    ELSE [util |-> ZeroUtil, decimals |-> 0]

TableRow(port, data, aliases) ==
    [port   |-> port,
     type   |-> DisplayType(data),
     alias  |-> AliasOr(aliases, port, <<"-">>),
     status |-> DisplayStatus(data),
     speed  |-> data.Speed,
     media  |-> data.Media,
     rx     |-> TableUtil(calc_util(data.RxRate, data.Speed)),
     tx     |-> TableUtil(calc_util(data.TxRate, data.Speed))]

\* the counts of a summary block
SummaryCounts(pd) ==
    [total    |-> Cardinality(DOMAIN pd),
     enabled  |-> AdminCount(pd, <<"e", "n", "a", "b", "l", "e", "d">>),
     disabled |-> AdminCount(pd, <<"d", "i", "s", "a", "b", "l", "e", "d">>)]

\* the summary rows after the csv rows: printed whatever show_summary is
CsvSummary(pd, summary) == <<SummaryCounts(pd)>>

\* if show_summary and output_format == 'table'
TableSummary(pd, summary) == IF summary THEN <<SummaryCounts(pd)>> ELSE <<>>

\* json has no summary
JsonSummary(pd, summary) == <<>>

\* everything printed for one format
Rendering(format, summary, pd, order, aliases) ==
    LET sorted_ports == SortedPorts(order) IN
    IF format = "json"
    THEN [format  |-> format,
          rows    |-> [i \in 1..Len(sorted_ports) |->
                         JsonRow(sorted_ports[i], pd[sorted_ports[i]], aliases)],
          summary |-> JsonSummary(pd, summary)]
    ELSE IF format = "csv"
    THEN [format  |-> format,
          rows    |-> [i \in 1..Len(sorted_ports) |->
                         CsvRow(sorted_ports[i], pd[sorted_ports[i]], aliases)],
          summary |-> CsvSummary(pd, summary)]
    ELSE [format  |-> format,
          rows    |-> [i \in 1..Len(sorted_ports) |->
                         TableRow(sorted_ports[i], pd[sorted_ports[i]], aliases)],
          summary |-> TableSummary(pd, summary)]

\* nothing printed
NoOutput == [format |-> "none", rows |-> <<>>, summary |-> <<>>]

-----------------------------------------------------------------------------
(* parse_gigamon_diag as a state machine: one step per line of each scan *)

Formats == {"table", "csv", "json"}

NoPorts == [p \in {} |-> DefaultRecord]

NoAliases == [p \in {} |-> <<>>]

\* the state after lines 17-29, for a document of the set docs
InitOn(docs) ==
    /\ lines \in docs
    /\ output_format \in Formats
    /\ show_summary \in BOOLEAN
    /\ pc = "alias"
    /\ idx = 1
    /\ in_running_config = FALSE
    /\ port_aliases = NoAliases
    /\ current_ports = <<>>
    /\ port_data = NoPorts
    /\ port_order = <<>>
    /\ current_stats_ports = <<>>
    /\ err = "none"
    /\ out = NoOutput

\* if "Running Configuration" in line: in_running_config = True
FlagAfter(flag, line) == flag \/ Contains(line, <<"R", "u", "n", "n", "i", "n", "g", " ", "C", "o", "n", "f", "i", "g", "u", "r", "a", "t", "i", "o", "n">>)

\* alias = match.group(2).strip().replace('"', '')
AliasText(rest) == Replace(Strip(rest), <<"\"">>, <<>>)

\* faulty variant of SetAlias: the first alias of a port is kept
KeepFirstAlias(aliases, port_id, alias) ==
    [q \in DOMAIN aliases \cup {port_id} |->
        IF q \in DOMAIN aliases THEN aliases[q] ELSE alias]

\* port_aliases[port_id] = alias
SetAlias(aliases, port_id, alias) ==
    [q \in DOMAIN aliases \cup {port_id} |-> IF q = port_id THEN alias ELSE aliases[q]]

\* the body of the STEP 1 loop for one line
AliasesAfter(aliases, flag, line) ==
    LET match == AliasMatch(line) IN
    IF FlagAfter(flag, line) /\ match.matched
    THEN SetAlias(aliases, match.port, AliasText(match.rest))
    ELSE aliases

ScanAliasLine ==
    /\ pc = "alias"
    /\ idx <= Len(lines)
    /\ in_running_config' = FlagAfter(in_running_config, lines[idx])
    /\ port_aliases' = AliasesAfter(port_aliases, in_running_config, lines[idx])
    /\ idx' = idx + 1
    /\ UNCHANGED <<lines, output_format, show_summary, pc, current_ports, port_data,
                   port_order, current_stats_ports, err, out>>

\* the STEP 1 loop is exhausted; lines 44-45
EndAliasScan ==
    /\ pc = "alias"
    /\ idx > Len(lines)
    /\ pc' = "params"
    /\ idx' = 1
    /\ current_ports' = <<>>
    /\ UNCHANGED <<lines, output_format, show_summary, in_running_config, port_aliases,
                   port_data, port_order, current_stats_ports, err, out>>

\* the body of the STEP 2 loop for one line: the new current_ports, port_data
\* (with the key order) and the exception raised, if any
ParamStep(line, ports, pd, order) ==
    LET stripped == Strip(line)
        match    == HeaderMatch(stripped)
        parts    == SplitColumns(stripped, <<>>)
    IN  IF match.matched
        THEN LET cols  == SplitColumns(match.group, <<>>)
                 added == AddPorts([data |-> pd, order |-> order], cols)
             IN  [ports |-> cols, data |-> added.data, order |-> added.order,
                  err |-> "none"]
        ELSE IF StartsWith(stripped, <<"=">>) \/ ports = <<>>
        THEN [ports |-> ports, data |-> pd, order |-> order, err |-> "none"]
        ELSE IF Len(parts) < 2
        THEN [ports |-> ports, data |-> pd, order |-> order, err |-> "none"]
        ELSE LET stored == StoreValues(pd, ports, RowValues(parts), RowLabel(parts), 1)
             IN  [ports |-> ports, data |-> stored.data, order |-> order,
                  err |-> stored.err]

ScanParamLine ==
    /\ pc = "params"
    /\ idx <= Len(lines)
    /\ LET step == ParamStep(lines[idx], current_ports, port_data, port_order) IN
        /\ current_ports' = step.ports
        /\ port_data' = step.data
        /\ port_order' = step.order
        /\ err' = step.err
        /\ pc' = IF step.err = "none" THEN pc ELSE "raised"
    /\ idx' = idx + 1
    /\ UNCHANGED <<lines, output_format, show_summary, in_running_config, port_aliases,
                   current_stats_ports, out>>

\* the STEP 2 loop is exhausted; lines 106-107
EndParamScan ==
    /\ pc = "params"
    /\ idx > Len(lines)
    /\ pc' = "stats"
    /\ idx' = 1
    /\ current_stats_ports' = <<>>
    /\ UNCHANGED <<lines, output_format, show_summary, in_running_config, port_aliases,
                   current_ports, port_data, port_order, err, out>>

\* the body of the STEP 2.5 loop for one line
StatsStep(line, ports, pd) ==
    LET stripped == Strip(line)
        match    == StatsHeaderMatch(stripped)
        parts    == SplitColumns(stripped, <<>>)
    IN  IF match.matched
        THEN [ports |-> StatsPorts(SplitColumns(match.group, <<>>)), data |-> pd,
              err |-> "none"]
        ELSE IF StartsWith(stripped, <<"=">>) \/ ports = <<>>
        THEN [ports |-> ports, data |-> pd, err |-> "none"]
        ELSE IF Len(parts) < 2
        THEN [ports |-> ports, data |-> pd, err |-> "none"]
        ELSE LET stored == StoreRates(pd, ports, RowValues(parts), RowLabel(parts), 1)
             IN  [ports |-> ports, data |-> stored.data, err |-> stored.err]

ScanStatsLine ==
    /\ pc = "stats"
    /\ idx <= Len(lines)
    /\ LET step == StatsStep(lines[idx], current_stats_ports, port_data) IN
        /\ current_stats_ports' = step.ports
        /\ port_data' = step.data
        /\ err' = step.err
        /\ pc' = IF step.err = "none" THEN pc ELSE "raised"
    /\ idx' = idx + 1
    /\ UNCHANGED <<lines, output_format, show_summary, in_running_config, port_aliases,
                   current_ports, port_order, out>>

\* the STEP 2.5 loop is exhausted
EndStatsScan ==
    /\ pc = "stats"
    /\ idx > Len(lines)
    /\ pc' = "render"
    /\ UNCHANGED <<lines, output_format, show_summary, idx, in_running_config,
                   port_aliases, current_ports, port_data, port_order,
                   current_stats_ports, err, out>>

\* STEP 3 and the summary: sort, then print; nothing is printed when the sort raises
Render ==
    /\ pc = "render"
    /\ err' = SortError(port_order)
    /\ IF SortError(port_order) = "none"
       THEN /\ out' = Rendering(output_format, show_summary, port_data, port_order,
                                port_aliases)
            /\ pc' = "done"
       ELSE /\ out' = out
            /\ pc' = "raised"
    /\ UNCHANGED <<lines, output_format, show_summary, idx, in_running_config,
                   port_aliases, current_ports, port_data, port_order,
                   current_stats_ports>>

Next ==
    \/ ScanAliasLine
    \/ EndAliasScan
    \/ ScanParamLine
    \/ EndParamScan
    \/ ScanStatsLine
    \/ EndStatsScan
    \/ Render

-----------------------------------------------------------------------------
(* Documents *)

\* every sequence of at most n lines of the set S
DocsOver(S, n) == UNION {[1..k -> S] : k \in 0..n}

\* longest document of the general specification
MaxLines == 3

\* lines of a 'show diag' dump: two parameter headers that share a port, a
\* separator, a row with fewer values than the first header has ports and more
\* than the second, a statistics header naming a port no parameter header
\* names, a counter row, and an alias line (of a port no header names) that
\* also holds the configuration marker.  For the parameter scan the last three
\* are rows: one with an unknown label, one with a counter label, one that
\* does not split into a label and a value.
MainLines ==
    {<<"P", "a", "r", "a", "m", "e", "t", "e", "r", " ", " ", "1", "/", "1", "/", "x", "1", " ", " ", "1", "/", "1", "/", "x", "2", " ", " ", "1", "/", "1", "/", "x", "5">>,
     <<"P", "a", "r", "a", "m", "e", "t", "e", "r", " ", " ", "1", "/", "1", "/", "x", "2">>,
     <<"=", "=", "=", "=", "=", "=", "=", "=", "=", "=", "=", "=", "=", "=", "=", "=", "=", "=", "=", "=">>,
     <<"T", "y", "p", "e", ":", " ", " ", "G", "i", "g", "a", "P", "o", "r", "t", " ", " ", "T", "o", "o", "l", "(", "T", ")">>,
     <<"C", "o", "u", "n", "t", "e", "r", " ", "N", "a", "m", "e", " ", " ", "P", "o", "r", "t", ":", " ", "1", "/", "1", "/", "x", "1", " ", " ", "P", "o", "r", "t", ":", " ", "1", "/", "1", "/", "x", "3">>,
     <<"I", "f", "I", "n", "O", "c", "t", "e", "t", "s", "P", "e", "r", "S", "e", "c", " ", " ", "1", "2", "5", " ", " ", "7">>,
     <<"p", "o", "r", "t", " ", "1", "/", "1", "/", "x", "4", " ", "a", "l", "i", "a", "s", " ", "R", "u", "n", "n", "i", "n", "g", " ", "C", "o", "n", "f", "i", "g", "u", "r", "a", "t", "i", "o", "n">>}

Init == InitOn(DocsOver(MainLines, MaxLines))

Spec == Init /\ [][Next]_vars

\* a line whose columns are the given fields, two spaces apart
RECURSIVE JoinColumns(_)
JoinColumns(fields) ==
    IF Len(fields) = 1 THEN fields[1]
    ELSE fields[1] \o <<" ", " ">> \o JoinColumns(Tail(fields))

\* every word of at most n characters of the set chars
RECURSIVE WordsOver(_, _)
WordsOver(chars, n) ==
    IF n = 0 THEN {<<>>}
    ELSE WordsOver(chars, n - 1)
         \cup {Append(w, c) : w \in WordsOver(chars, n - 1), c \in chars}

(* Documents for the alias scan *)

\* longest document of the alias specification
MaxAliasLines == 3

\* a marker line (which the pattern rejects), alias lines of two ports (one
\* quoted, with a comma and surrounding whitespace) and an alias line that
\* also holds the marker
AliasLines ==
    {<<"#", "#", " ", "R", "u", "n", "n", "i", "n", "g", " ", "C", "o", "n", "f", "i", "g", "u", "r", "a", "t", "i", "o", "n", " ", "(", "a", "c", "t", "i", "v", "e", ")", " ", "#", "#">>,
     <<"p", "o", "r", "t", " ", "1", "/", "1", "/", "x", "1", " ", "a", "l", "i", "a", "s", " ", "U", "p", "l", "i", "n", "k">>,
     <<" ", " ", "p", "o", "r", "t", " ", " ", "1", "/", "1", "/", "x", "1", " ", " ", "a", "l", "i", "a", "s", " ", " ", "\"", "C", "o", "r", "e", ",", " ", "B", "\"", " ">>,
     <<"p", "o", "r", "t", " ", "1", "/", "1", "/", "x", "2", " ", "a", "l", "i", "a", "s", " ", "T", "a", "p">>,
     <<"p", "o", "r", "t", " ", "1", "/", "1", "/", "x", "2", " ", "a", "l", "i", "a", "s", " ", "R", "u", "n", "n", "i", "n", "g", " ", "C", "o", "n", "f", "i", "g", "u", "r", "a", "t", "i", "o", "n">>}

InitAlias == InitOn(DocsOver(AliasLines, MaxAliasLines))

SpecAlias == InitAlias /\ [][Next]_vars

(* Documents for the attribute rows *)

\* most rows after the header of a row document
MaxRows == 2

\* headers with two ports, one port, and the same port in two columns
RowHeaders ==
    {<<"P", "a", "r", "a", "m", "e", "t", "e", "r", " ", " ", "1", "/", "1", "/", "x", "1", " ", " ", "1", "/", "1", "/", "x", "2">>,
     <<"P", "a", "r", "a", "m", "e", "t", "e", "r", " ", " ", "1", "/", "1", "/", "x", "1">>,
     <<"P", "a", "r", "a", "m", "e", "t", "e", "r", " ", " ", "1", "/", "1", "/", "x", "1", " ", " ", "1", "/", "1", "/", "x", "1">>}

\* rows of each recognized label with one, two or three values, a separator
\* and a row with an unknown label
RowLines ==
    {<<"T", "y", "p", "e", ":", " ", " ", "G", "i", "g", "a", "P", "o", "r", "t", " ", " ", "T", "o", "o", "l", "(", "T", ")", " ", " ", "S", "p", "a", "r", "e">>,
     <<"T", "y", "p", "e", " ", " ", "H", "y", "b", "r", "i", "d">>,
     <<"A", "d", "m", "i", "n", ":", " ", " ", "d", "i", "s", "a", "b", "l", "e", "d", " ", " ", "E", "N", "A", "B", "L", "E", "D">>,
     <<"A", "d", "m", "i", "n", " ", " ", "e", "n", "a", "b", "l", "e", "d">>,
     <<"S", "p", "e", "e", "d", " ", "(", "M", "b", "p", "s", ")", ":", " ", " ", "1", "0", "0", "0", "0", " ", " ", "2", "5", "0", "0">>,
     <<"S", "F", "P", " ", "t", "y", "p", "e", " ", " ", "S", "F", "P", "+", " ", "S", "R">>,
     <<"=", "=", "=", "=", "=", "=", "=", "=", "=", "=", "=", "=", "=", "=", "=", "=", "=", "=", "=", "=">>,
     <<"S", "e", "r", "i", "a", "l", " ", " ", "A", "1", " ", " ", "B", "2">>}

RowDocs == {<<h>> \o d : h \in RowHeaders, d \in DocsOver(RowLines, MaxRows)}

InitRows == InitOn(RowDocs)

SpecRows == InitRows /\ [][Next]_vars

(* Documents for the media classification *)

\* longest generated SFP type value
MaxSfpLen == 3

\* SFP type values: the words of at most MaxSfpLen characters over a few
\* letters of the copper, fiber and qsfp indicators, and values of each class
SfpValues ==
    WordsOver({"C", "u", "s", "R"}, MaxSfpLen)
    \cup {<<"S", "F", "P", "+", " ", "S", "R">>, <<"S", "F", "P", " ", "C", "u">>, <<"C", "O", "P", "P", "E", "R">>, <<"c", "o", "p", "p", "e", "r", " ", "s", "r">>, <<"C", "u", " ", "L", "X", "4">>,
          <<"Q", "S", "F", "P", "2", "8">>, <<"q", "s", "f", "p", "+", " ", "l", "r", "4">>, <<"Q", "S", "F", "P", " ", "C", "u">>, <<"S", "F", "P", "+", " ", "Z", "R">>, <<"1", "0", "0", "0", "-", "E", "R">>,
          <<"n", "o", "n", "e">>, <<"N", "o", "n", "e">>, <<"N", "/", "A">>, <<"(", "u", "n", "s", "u", "p", "p", "o", "r", "t", "e", "d", ")">>, <<"(", "U", "n", "s", "u", "p", "p", "o", "r", "t", "e", "d", ")">>,
          <<"n", "o", "n", "e", " ", "x">>, <<"U", "n", "k", "n", "o", "w", "n">>, <<"u", "n", "k", "n", "o", "w", "n">>, <<"G", "L", "C", "-", "T">>, <<"-">>}

MediaDocs ==
    {<<<<"P", "a", "r", "a", "m", "e", "t", "e", "r", " ", " ", "1", "/", "1", "/", "x", "1">>, JoinColumns(<<<<"S", "F", "P", " ", "t", "y", "p", "e", ":">>, v>>)>> :
        v \in SfpValues \ {<<>>}}

InitMedia == InitOn(MediaDocs)

SpecMedia == InitMedia /\ [][Next]_vars

(* Documents for the utilisation *)

\* "Speed (Mbps)" values: the four that are normalised, the recognized labels
\* given raw, placeholders, and raw values that are not labels
SpeedValues ==
    {<<"1", "0", "0", "0">>, <<"1", "0", "0", "0", "0">>, <<"4", "0", "0", "0", "0">>, <<"1", "0", "0", "0", "0", "0">>, <<"1", "0", "0", "M", "b">>, <<"1", "G", "b">>,
     <<"1", "0", "0">>, <<"2", "5", "0", "0">>, <<"N", "/", "A">>, <<"U", "n", "k", "n", "o", "w", "n">>, <<"-">>, <<"1", "G", "b", "p", "s">>, <<"1", "1", "G", "b">>,
     <<"1", "0", "g", "b">>}

\* counter values: numeric (one negative, one signed) and not numeric
RateValues ==
    {<<"0">>, <<"1">>, <<"1", "2", "5">>, <<"1", "2", "5", "0", "0", "0", "0">>, <<"+", "2", "5", "0">>, <<"-", "1", "2", "5">>, <<"N", "/", "A">>,
     <<"1", "2", "x">>, <<"-">>}

UtilDocs ==
    {<<<<"P", "a", "r", "a", "m", "e", "t", "e", "r", " ", " ", "1", "/", "1", "/", "x", "1">>,
       JoinColumns(<<<<"S", "p", "e", "e", "d", " ", "(", "M", "b", "p", "s", ")", ":">>, s>>),
       <<"C", "o", "u", "n", "t", "e", "r", " ", "N", "a", "m", "e", " ", " ", "P", "o", "r", "t", ":", " ", "1", "/", "1", "/", "x", "1">>,
       JoinColumns(<<<<"I", "f", "I", "n", "O", "c", "t", "e", "t", "s", "P", "e", "r", "S", "e", "c", ":">>, r>>),
       JoinColumns(<<<<"I", "f", "O", "u", "t", "O", "c", "t", "e", "t", "s", "P", "e", "r", "S", "e", "c", ":">>, <<"1", "2", "5">>>>)>> :
        s \in SpeedValues, r \in RateValues}

InitUtil == InitOn(UtilDocs)

SpecUtil == InitUtil /\ [][Next]_vars

(* Documents for the sort *)

\* most ports of the header of a sort document
MaxSortPorts == 3

\* port identifiers: digit runs of different lengths and values, a leading
\* zero, a different slot, and one ending in a superscript two
SortKeys ==
    {<<"1", "/", "1", "/", "x", "1">>, <<"1", "/", "1", "/", "x", "2">>, <<"1", "/", "1", "/", "x", "1", "0">>, <<"1", "/", "1", "/", "x", "0", "1">>, <<"1", "/", "2", "/", "x", "1">>, <<"1", "/", "1", "/", "x", "1", "SUP2">>}

\* the sequences of at most n distinct keys
RECURSIVE DistinctSeqs(_, _)
DistinctSeqs(keys, n) ==
    IF n = 0 THEN {<<>>}
    ELSE LET shorter == DistinctSeqs(keys, n - 1) IN
         shorter \cup UNION {{Append(s, k) : k \in keys \ Range(s)} :
                                s \in {t \in shorter : Len(t) = n - 1}}

SortDocs ==
    {<<JoinColumns(<<<<"P", "a", "r", "a", "m", "e", "t", "e", "r">>>> \o cols)>> :
        cols \in DistinctSeqs(SortKeys, MaxSortPorts) \ {<<>>}}

InitSort == InitOn(SortDocs)

SpecSort == InitSort /\ [][Next]_vars

(* Documents for the renderings *)

TypeValues == {<<"G", "i", "g", "a", "P", "o", "r", "t", "(", "T", ")">>, <<"T", "o", "o", "l">>, <<"(", "T", ")", "N", "e", "t", "(", "T", ")">>}

AdminValues == {<<"e", "n", "a", "b", "l", "e", "d">>, <<"D", "I", "S", "A", "B", "L", "E", "D">>, <<"E", "n", "a", "b", "l", "e", "d">>, <<"u", "p">>}

RenderDocs ==
    {<<<<"p", "o", "r", "t", " ", "1", "/", "1", "/", "x", "2", " ", "a", "l", "i", "a", "s", " ", "R", "u", "n", "n", "i", "n", "g", " ", "C", "o", "n", "f", "i", "g", "u", "r", "a", "t", "i", "o", "n", ",", " ", "A">>,
       <<"P", "a", "r", "a", "m", "e", "t", "e", "r", " ", " ", "1", "/", "1", "/", "x", "1", "0", " ", " ", "1", "/", "1", "/", "x", "2">>,
       JoinColumns(<<<<"T", "y", "p", "e", ":">>, t1, t2>>),
       JoinColumns(<<<<"A", "d", "m", "i", "n", ":">>, a1, a2>>)>> :
        t1 \in TypeValues, t2 \in {<<"T", "o", "o", "l">>, <<"H", "y", "b", "r", "i", "d", "(", "T", ")">>},
        a1 \in AdminValues, a2 \in AdminValues}

InitRender == InitOn(RenderDocs)

SpecRender == InitRender /\ [][Next]_vars

-----------------------------------------------------------------------------
(* Properties of the scans, checked under Spec *)

\* whether the STEP 2 loop takes the line for a header
IsParamHeader(line) == HeaderMatch(Strip(line)).matched

\* the columns of a header line
ParamColumns(line) == Range(SplitColumns(HeaderMatch(Strip(line)).group, <<>>))

\* every port listed as a column of some 'Parameter' header line of the document
HeaderColumns(doc) ==
    UNION {IF IsParamHeader(doc[i]) THEN ParamColumns(doc[i]) ELSE {} : i \in 1..Len(doc)}

\* the label of a row as both row scans read it
LabelOf(line) == RowLabel(SplitColumns(Strip(line), <<>>))

\* C1: every key of the port record map, and so every port of an output row,
\* is a column of at least one 'Parameter' header line of the document; ports
\* named only by an alias line or only by a 'Counter Name' header never get a
\* record.
C1_ReportPortsFromHeaders ==
    /\ DOMAIN port_data \subseteq HeaderColumns(lines)
    /\ \A i \in 1..Len(out.rows) : out.rows[i].port \in HeaderColumns(lines)

\* C1 witness: a report with a row was printed for a document whose counter
\* row was read under a statistics header naming a port without a record.
C1_Witness ==
    /\ pc = "done"
    /\ Len(out.rows) >= 1
    /\ \E p \in Range(current_stats_ports) : p \notin DOMAIN port_data
    /\ \E i \in 1..Len(lines) : LabelOf(lines[i]) = <<"I", "f", "I", "n", "O", "c", "t", "e", "t", "s", "P", "e", "r", "S", "e", "c">>

\* C7: neither row scan raises: no subscript of current_ports is out of range
\* and no port_data subscript is a missing key, for any document.
C7_ScansNeverRaise ==
    /\ err \notin {"IndexError", "KeyError"}
    /\ pc \in {"alias", "params", "stats", "render"} => err = "none"

\* C7 witness: the statistics scan was reached after a row with more values
\* than the current header has ports was stored.
C7_Witness ==
    /\ pc = "stats"
    /\ err = "none"
    /\ Len(current_ports) = 1
    /\ \E i \in 1..Len(lines) :
          /\ LabelOf(lines[i]) = <<"T", "y", "p", "e">>
          /\ Len(SplitColumns(Strip(lines[i]), <<>>)) > 1 + Len(current_ports)
          /\ port_data[current_ports[1]].Type = SplitColumns(Strip(lines[i]), <<>>)[2]

\* C10: no key of the port record map is ever deleted; a header line gives each
\* port it names for the first time a record of defaults and leaves every
\* existing record as it is; and after the STEP 2 loop has started only a
\* header line changes the current port list (separator lines, rows and the
\* end of the document keep it).
C10_RecordsOnlyGrow ==
    [][/\ DOMAIN port_data \subseteq DOMAIN port_data'
       /\ (pc = "params" /\ idx <= Len(lines) /\ IsParamHeader(lines[idx])) =>
             /\ \A p \in DOMAIN port_data : port_data'[p] = port_data[p]
             /\ \A p \in DOMAIN port_data' \ DOMAIN port_data :
                    port_data'[p] = DefaultRecord
             /\ ParamColumns(lines[idx]) \subseteq DOMAIN port_data'
       /\ (pc \in {"params", "stats", "render"}
             /\ ~(pc = "params" /\ idx <= Len(lines) /\ IsParamHeader(lines[idx]))) =>
             current_ports' = current_ports]_vars

\* C10 witness: the third line is a header naming again a port whose record an
\* earlier row changed; the record still differs from the defaults.
C10_Witness ==
    /\ pc = "params"
    /\ idx = 4
    /\ IsParamHeader(lines[3])
    /\ \E p \in Range(current_ports) : port_data[p] # DefaultRecord

-----------------------------------------------------------------------------
(* The alias scan, checked under SpecAlias *)

\* whether the line holds the configuration marker
IsMarker(line) == Contains(line, <<"R", "u", "n", "n", "i", "n", "g", " ", "C", "o", "n", "f", "i", "g", "u", "r", "a", "t", "i", "o", "n">>)

\* the lines among the first n that are at or after the first marker line and
\* match the alias pattern for port p
AliasLinesFor(doc, n, p) ==
    {i \in 1..n : /\ \E m \in 1..i : IsMarker(doc[m])
                  /\ AliasMatch(doc[i]).matched
                  /\ AliasMatch(doc[i]).port = p}

Largest(S) == CHOOSE i \in S : \A j \in S : j <= i

\* the alias table after the first n lines, by last write wins
LastAliases(doc, n) ==
    LET named == {AliasMatch(doc[i]).port : i \in 1..n}
        ports == {p \in named : AliasLinesFor(doc, n, p) # {}}
    IN  [p \in ports |-> AliasText(AliasMatch(doc[Largest(AliasLinesFor(doc, n, p))]).rest)]

\* the lines the alias scan has read
AliasLinesRead == IF pc = "alias" THEN idx - 1 ELSE Len(lines)

\* C8: after any number of lines of the alias scan, the flag is set exactly when
\* a marker line has been read (so it never goes back), and the alias table
\* maps each port to the alias of its last alias line at or after the first
\* marker line; ports without such a line are absent.
C8_AliasLastWriteWins ==
    /\ in_running_config = (\E m \in 1..AliasLinesRead : IsMarker(lines[m]))
    /\ port_aliases = LastAliases(lines, AliasLinesRead)

\* C8 witness: the scan is over; an alias line before the first marker line
\* left its port without an alias, and a port with two later alias lines of
\* different text has the text of the second.
C8_Witness ==
    /\ pc = "params"
    /\ \E i \in 1..Len(lines) :
          /\ AliasMatch(lines[i]).matched
          /\ \A m \in 1..i : ~IsMarker(lines[m])
          /\ AliasMatch(lines[i]).port \notin DOMAIN port_aliases
    /\ \E i, j \in 1..Len(lines) :
          /\ i < j
          /\ AliasLinesFor(lines, Len(lines), AliasMatch(lines[j]).port) = {i, j}
          /\ AliasText(AliasMatch(lines[i]).rest) # AliasText(AliasMatch(lines[j]).rest)
          /\ port_aliases[AliasMatch(lines[j]).port] = AliasText(AliasMatch(lines[j]).rest)

-----------------------------------------------------------------------------
(* The attribute rows, checked under SpecRows *)

RowLabels == {<<"T", "y", "p", "e">>, <<"A", "d", "m", "i", "n">>, <<"S", "p", "e", "e", "d", " ", "(", "M", "b", "p", "s", ")">>, <<"S", "F", "P", " ", "t", "y", "p", "e">>}

\* the next step of the parameter scan stores a recognized attribute row
IsRowStep ==
    /\ pc = "params"
    /\ idx <= Len(lines)
    /\ ~IsParamHeader(lines[idx])
    /\ ~StartsWith(Strip(lines[idx]), <<"=">>)
    /\ current_ports # <<>>
    /\ Len(SplitColumns(Strip(lines[idx]), <<>>)) >= 2
    /\ LabelOf(lines[idx]) \in RowLabels

\* the values of the row about to be read
NextValues == RowValues(SplitColumns(Strip(lines[idx]), <<>>))

\* the attributes a row with this label writes
RowFields(label) ==
    IF label = <<"T", "y", "p", "e">> THEN {"Type"}
    ELSE IF label = <<"A", "d", "m", "i", "n">> THEN {"Admin"}
    ELSE IF label = <<"S", "p", "e", "e", "d", " ", "(", "M", "b", "p", "s", ")">> THEN {"Speed"}
    ELSE {"SFP", "Media"}

\* the positions of port p in the current list that have an aligned value
AlignedAt(p) ==
    {i \in 1..Len(current_ports) : i <= Len(NextValues) /\ current_ports[i] = p}

\* C9 as stated: after a recognized row, every port of the current list that
\* has no aligned value has the row's attribute at its default placeholder.
C9_UnalignedPortsAtDefault ==
    [][IsRowStep =>
          \A p \in Range(current_ports) :
              AlignedAt(p) = {} =>
                  \A f \in RowFields(LabelOf(lines[idx])) :
                      port_data'[p][f] = DefaultRecord[f]]_vars

\* C9 amended: a recognized row changes nothing but its own attribute of the
\* ports that have an aligned value: the value at index i goes to the i-th
\* port of the current list (the last such index when a port is listed twice),
\* values past the port count change no record, and a port of the list with no
\* aligned value keeps the attribute it had (the default placeholder only if
\* no earlier row set it).
C9_RowWritesAlignedPortsOnly ==
    [][IsRowStep =>
          /\ DOMAIN port_data' = DOMAIN port_data
          /\ \A p \in DOMAIN port_data :
                IF AlignedAt(p) = {}
                THEN port_data'[p] = port_data[p]
                ELSE \A f \in DOMAIN DefaultRecord :
                        port_data'[p][f] =
                            IF f \in RowFields(LabelOf(lines[idx]))
                            THEN RowUpdate(LabelOf(lines[idx]),
                                           NextValues[Largest(AlignedAt(p))])[f]
                            ELSE port_data[p][f]]_vars

\* C9 witness: two Type rows were read under a header of two ports, the first
\* with three values and the second with one; the first port has the value of
\* the second row and the second port still has its value of the first row.
C9_Witness ==
    /\ pc = "params"
    /\ idx = 4
    /\ Len(current_ports) = 2
    /\ LabelOf(lines[2]) = <<"T", "y", "p", "e">> /\ LabelOf(lines[3]) = <<"T", "y", "p", "e">>
    /\ Len(SplitColumns(lines[2], <<>>)) = 4
    /\ Len(SplitColumns(lines[3], <<>>)) = 2
    /\ port_data[current_ports[1]].Type = SplitColumns(lines[3], <<>>)[2]
    /\ port_data[current_ports[2]].Type = SplitColumns(lines[2], <<>>)[3]
    /\ port_data[current_ports[2]].Type # DefaultRecord.Type

-----------------------------------------------------------------------------
(* The media classification, checked under SpecMedia *)

\* the SFP type row of the document has been stored
SfpRowStored == (pc = "params" /\ idx > 2) \/ pc \in {"stats", "render", "done"}

\* the value of the SFP type row
SfpValue == SplitColumns(Strip(lines[2]), <<>>)[2]

SaysCopper(l) == Contains(l, <<"c", "u">>) \/ Contains(l, <<"c", "o", "p", "p", "e", "r">>)

SaysFiber(l) ==
    \/ Contains(l, <<"s", "x">>) \/ Contains(l, <<"l", "x">>) \/ Contains(l, <<"s", "r">>)
    \/ Contains(l, <<"l", "r">>) \/ Contains(l, <<"e", "r">>) \/ Contains(l, <<"z", "r">>)

SaysQsfp(l) == Contains(l, <<"q", "s", "f", "p">>)

SaysNoModule(l) == l = <<"n", "o", "n", "e">> \/ l = <<"n", "/", "a">> \/ l = <<"(", "u", "n", "s", "u", "p", "p", "o", "r", "t", "e", "d", ")">>

\* C6: the stored Media of an 'SFP type' value is decided by the first test
\* that matches its lower-case form: copper, then fiber, then qsfp, then no
\* module, else the raw value; "Unknown" is stored only as a raw value.
C6_MediaPrecedence ==
    SfpRowStored =>
        \A p \in DOMAIN port_data :
            LET l == Lower(SfpValue)
                m == port_data[p].Media
            IN  /\ port_data[p].SFP = SfpValue
                /\ SaysCopper(l) => m = <<"C", "o", "p", "p", "e", "r">>
                /\ (~SaysCopper(l) /\ SaysFiber(l)) => m = <<"F", "i", "b", "e", "r">>
                /\ (~SaysCopper(l) /\ ~SaysFiber(l) /\ SaysQsfp(l)) => m = <<"F", "i", "b", "e", "r", " ", "(", "Q", "S", "F", "P", ")">>
                /\ (~SaysCopper(l) /\ ~SaysFiber(l) /\ ~SaysQsfp(l) /\ SaysNoModule(l)) =>
                       m = <<"N", "o", " ", "M", "o", "d", "u", "l", "e">>
                /\ (~SaysCopper(l) /\ ~SaysFiber(l) /\ ~SaysQsfp(l) /\ ~SaysNoModule(l)) =>
                       m = SfpValue
                /\ m = <<"U", "n", "k", "n", "o", "w", "n">> => SfpValue = <<"U", "n", "k", "n", "o", "w", "n">>

\* C6 witness: a value with a copper and a fiber indicator was stored as Copper.
C6_Witness ==
    /\ SfpRowStored
    /\ SaysCopper(Lower(SfpValue)) /\ SaysFiber(Lower(SfpValue))
    /\ \E p \in DOMAIN port_data : port_data[p].Media = <<"C", "o", "p", "p", "e", "r">>

-----------------------------------------------------------------------------
(* The utilisation, checked under SpecUtil *)

IsNumeric(rate_str) == ParseFloat(rate_str).ok

\* the link speed of a recognized label in units of 10^6 bit/s, 0 for any
\* other string
LabelMbps(speed_str) ==
    IF speed_str = <<"1", "0", "0", "G", "b">> THEN 100000
    ELSE IF speed_str = <<"4", "0", "G", "b">> THEN 40000
    ELSE IF speed_str = <<"1", "0", "G", "b">> THEN 10000
    ELSE IF speed_str = <<"1", "G", "b">> THEN 1000
    ELSE IF speed_str = <<"1", "0", "0", "M", "b">> THEN 100
    ELSE 0

\* (rate * 8 * 100) / speed in millionths of a percent, 0 without a speed
UtilAt(rate_str, mbps) ==
    IF IsNumeric(rate_str) /\ mbps # 0
    THEN Quotient(ParseFloat(rate_str).val * 8 * 100, mbps)
    ELSE ZeroUtil

\* the utilisation a row shows for a computed one: the table prints "0%" for
\* a value that is not positive
Shown(format, util) == IF format = "table" /\ util.num <= 0 THEN ZeroUtil ELSE util

\* C3 as stated: the utilisation of a row is (rate * 8 * 100) / speed_bps when
\* the stored Speed is exactly a recognized label and the rate is numeric, and
\* 0 for every other Speed string and every non-numeric rate.
C3_UtilOfExactLabels ==
    pc = "done" =>
        \A i \in 1..Len(out.rows) :
            LET data == port_data[out.rows[i].port] IN
            /\ out.rows[i].rx.util =
                   Shown(out.format, UtilAt(data.RxRate, LabelMbps(data.Speed)))
            /\ out.rows[i].tx.util =
                   Shown(out.format, UtilAt(data.TxRate, LabelMbps(data.Speed)))

LabelOrder == <<<<"1", "0", "0", "G", "b">>, <<"4", "0", "G", "b">>, <<"1", "0", "G", "b">>, <<"1", "G", "b">>, <<"1", "0", "0", "M", "b">>>>

\* the speed of the first label of LabelOrder that occurs in the string, 0 when
\* none occurs or the string is one of the placeholders
ContainedMbps(speed_str) ==
    LET found == {k \in 1..Len(LabelOrder) : Contains(speed_str, LabelOrder[k])}
    IN  IF found = {} \/ speed_str \in {<<"N", "/", "A">>, <<"U", "n", "k", "n", "o", "w", "n">>, <<"-">>} THEN 0
        ELSE LabelMbps(LabelOrder[CHOOSE k \in found : \A j \in found : k <= j])

\* C3 amended: the utilisation is (rate * 8 * 100) / speed_bps when the rate is
\* numeric and the stored Speed contains a recognized label (the first of
\* 100Gb, 40Gb, 10Gb, 1Gb, 100Mb that occurs in it gives speed_bps), so rate
\* 1250000 at Speed "1Gb" is exactly 1 percent; it is 0 for a Speed that
\* contains none of the labels and for every non-numeric rate.
C3_UtilOfContainedLabels ==
    pc = "done" =>
        \A i \in 1..Len(out.rows) :
            LET data == port_data[out.rows[i].port] IN
            /\ out.rows[i].rx.util =
                   Shown(out.format, UtilAt(data.RxRate, ContainedMbps(data.Speed)))
            /\ out.rows[i].tx.util =
                   Shown(out.format, UtilAt(data.TxRate, ContainedMbps(data.Speed)))
            /\ (data.RxRate = <<"1", "2", "5", "0", "0", "0", "0">> /\ data.Speed = <<"1", "G", "b">>) =>
                   out.rows[i].rx.util = [num |-> 1000000, den |-> 1]

\* C3 witness: a report was printed for a port with Speed "1Gb" and a receive
\* rate of 1250000; the row shows exactly 1 percent.
C3_Witness ==
    /\ pc = "done"
    /\ \E i \in 1..Len(out.rows) :
          /\ port_data[out.rows[i].port].Speed = <<"1", "G", "b">>
          /\ port_data[out.rows[i].port].RxRate = <<"1", "2", "5", "0", "0", "0", "0">>
          /\ out.rows[i].rx.util = [num |-> 1000000, den |-> 1]

-----------------------------------------------------------------------------
(* The sort, checked under SpecSort *)

\* C5: the report is printed with its rows in natural order of the port
\* identifier, for every set of ports of the record map: sorting raises
\* nothing, no two keys are incomparable, and no row's key is smaller than the
\* key of a row before it.
C5_RowsInNaturalOrder ==
    pc \in {"done", "raised"} =>
        /\ err = "none"
        /\ Len(out.rows) = Len(port_order)
        /\ \A p, q \in DOMAIN port_data :
               ListLess(natural_keys(p), natural_keys(q)) # "TypeError"
        /\ \A i, j \in 1..Len(out.rows) :
               i < j => ~KeyLess(out.rows[j].port, out.rows[i].port)

\* the same order, for the reports of record maps none of whose keys makes
\* natural_keys raise
RowsInNaturalOrderUnlessRaised ==
    /\ pc = "raised" => \E p \in DOMAIN port_data : KeyRaises(p)
    /\ pc = "done" =>
        /\ Len(out.rows) = Len(port_order)
        /\ {out.rows[i].port : i \in 1..Len(out.rows)} = DOMAIN port_data
        /\ \A i, j \in 1..Len(out.rows) :
               i < j => ~KeyLess(out.rows[j].port, out.rows[i].port)

-----------------------------------------------------------------------------
(* The renderings, checked under SpecRender *)

\* C2: with show_summary false no summary is printed, in any format.
C2_NoSummaryWhenSuppressed ==
    (pc = "done" /\ ~show_summary) => out.summary = <<>>

RenderingOf(format, summary) ==
    Rendering(format, summary, port_data, port_order, port_aliases)

\* C4: what is printed is the rendering of the record map in the requested
\* format, and the three renderings of the same record map have the same
\* ports in the same order with the same Type, Status, Speed and Media, and
\* the same counts in every summary that is printed.
C4_FormatsAgree ==
    pc = "done" =>
        /\ out = RenderingOf(output_format, show_summary)
        /\ \A f, g \in Formats :
              LET a == RenderingOf(f, show_summary).rows
                  b == RenderingOf(g, show_summary).rows
              IN  /\ Len(a) = Len(b)
                  /\ \A i \in 1..Len(a) :
                        /\ a[i].port = b[i].port
                        /\ a[i].type = b[i].type
                        /\ a[i].status = b[i].status
                        /\ a[i].speed = b[i].speed
                        /\ a[i].media = b[i].media
        /\ \A f, g \in Formats : \A s, t \in BOOLEAN :
              (RenderingOf(f, s).summary # <<>> /\ RenderingOf(g, t).summary # <<>>) =>
                  RenderingOf(f, s).summary = RenderingOf(g, t).summary

\* C4 witness: a report of two ports with a summary was printed; a shown Type
\* differs from the stored one, a shown Status differs from the stored Admin,
\* and a port is counted as enabled.
C4_Witness ==
    /\ pc = "done"
    /\ Len(out.rows) = 2
    /\ \E i \in 1..2 : out.rows[i].type # port_data[out.rows[i].port].Type
    /\ \E i \in 1..2 : out.rows[i].status # port_data[out.rows[i].port].Admin
    /\ out.summary # <<>>
    /\ out.summary[1].enabled >= 1

=============================================================================
